---- MODULE Spec2Model ----
(***************************************************************************)
(* The retrieval pipeline of the chat assistant: getRAGContext (lib/rag),  *)
(* the two POST handlers of /api/rag, and the RAG section of the chat POST *)
(* handler.  A request advances at the points where the code awaits.       *)
(***************************************************************************)
EXTENDS Integers, Sequences, FiniteSets, TLC

VARIABLES
    corpusFile,   \* data/cs61a_syllabus_embeddings.json: how it reads, and its chunks
    apiKeySet,    \* per request: is OPENAI_API_KEY set in the serving process
    reqs,         \* per request: the locals of one retrieval call
    chat          \* the locals of one chat POST call

vars == <<corpusFile, apiKeySet, reqs, chat>>

----------------------------------------------------------------------------
(* Bounds *)

MaxChunks == 3

MaxTopK == 3

MaxConcChunks == 2

Reqs == {1, 2}

----------------------------------------------------------------------------
(* JavaScript values that reach the pipeline as `question` and `topK` *)

JsString(s) == [type |-> "string", val |-> s]

JsUndefined == [type |-> "undefined", val |-> ""]

JsNumber(s) == [type |-> "number", val |-> s]

Falsy(v) ==
    \/ v.type = "undefined"
    \/ v.type = "string" /\ v.val = ""
    \/ v.type = "number" /\ v.val = "0"

NoTopK == [given |-> FALSE, n |-> 0]

GivenTopK(k) == [given |-> TRUE, n |-> k]

DefaultTopK == 4

\* `topK = 4` as a default parameter / destructuring default
TopKOrDefault(t) == IF t.given THEN t.n ELSE DefaultTopK

Questions ==
    { JsString("what is due"), JsString("who teaches"), JsString(""),
      JsUndefined, JsNumber("42"), JsNumber("0") }

TopKs == {NoTopK} \cup {GivenTopK(k) : k \in -1..MaxTopK}

\* !question || typeof question !== 'string'
InvalidQuestion_typeOnly(q) == q.type # "string"

InvalidQuestion(q) == Falsy(q) \/ q.type # "string"

----------------------------------------------------------------------------
(* Numbers: a similarity is a float, kept in hundredths, or NaN *)

Num(v) == [nan |-> FALSE, v |-> v]

NaN == [nan |-> TRUE, v |-> 0]

\* a - b on floats
Minus(a, b) == IF a.nan \/ b.nan THEN NaN ELSE Num(a.v - b.v)

\* a >= b on floats: false as soon as one side is NaN
Geq(a, b) == ~a.nan /\ ~b.nan /\ a.v >= b.v

Min(a, b) == IF a < b THEN a ELSE b

Max(a, b) == IF a > b THEN a ELSE b

----------------------------------------------------------------------------
(* The corpus *)

\* embeddings whose magnitudes are whole numbers, so that every quotient
\* below is exact; <<0, 0>> is the zero-magnitude vector
Vecs == { <<5, 0>>, <<6, 8>>, <<-3, -4>>, <<0, 0>> }

\* the embeddings of the corpora that two concurrent requests share
ConcVecs == { <<5, 0>>, <<0, 5>>, <<0, 0>> }

Digit(i) == ToString(i % 10)

\* the text of the chunk at position i: i % 3 characters
TextOf(i) == [j \in 1..(i % 3) |-> Digit(i)]

Chunk(i, e) == [chunk_id |-> i, text |-> TextOf(i), embedding |-> e]

Corpora(vs, max) ==
    UNION { { [i \in 1..n |-> Chunk(i, f[i])] : f \in [1..n -> vs] } : n \in 0..max }

FileStatuses == {"ok", "missing", "invalidJson", "notArray"}

Files(vs, max) ==
    { [status |-> "ok", chunks |-> c] : c \in Corpora(vs, max) }
        \cup { [status |-> s, chunks |-> <<>>] : s \in FileStatuses \ {"ok"} }

----------------------------------------------------------------------------
(* The embedding service *)

\* the vector text-embedding-ada-002 answers for a text
EmbeddingOf(text) ==
    IF text = "what is due" THEN <<4, 3>> ELSE <<0, 5>>

RemoteOutcomes == {"ok", "error", "malformed"}

----------------------------------------------------------------------------
(* cosineSimilarity: dot product over the product of the magnitudes *)

Dot(a, b) == a[1] * b[1] + a[2] * b[2]

Sqrt(n) == CHOOSE r \in 0..n : r * r = n

Magnitude(a) == Sqrt(Dot(a, a))

cosineSimilarity(a, b) ==
    LET d == Magnitude(a) * Magnitude(b)
    IN  IF d = 0 THEN NaN ELSE Num((100 * Dot(a, b)) \div d)

----------------------------------------------------------------------------
(* Scoring, sorting, slicing, joining *)

\* chunks.map(chunk => ({...chunk, similarity: cosineSimilarity(...)}))
Similarities(chunks, questionEmbedding) ==
    [i \in 1..Len(chunks) |->
        [chunk_id   |-> chunks[i].chunk_id,
         text       |-> chunks[i].text,
         embedding  |-> chunks[i].embedding,
         similarity |-> cosineSimilarity(questionEmbedding, chunks[i].embedding)]]

\* (a, b) => b.similarity - a.similarity
CompareFn(a, b) == Minus(b.similarity, a.similarity)

\* Array.prototype.sort reads a NaN from the comparator as +0
SortCompare(a, b) ==
    LET v == CompareFn(a, b) IN IF v.nan THEN 0 ELSE v.v

Range(s) == {s[i] : i \in 1..Len(s)}

\* the comparator is consistent on the elements of s (ECMAScript's condition
\* for a defined sort order)
ConsistentComparator(s) ==
    \A a, b, c \in Range(s) :
        /\ (SortCompare(a, b) = 0 /\ SortCompare(b, c) = 0) => SortCompare(a, c) = 0
        /\ (SortCompare(a, b) < 0 /\ SortCompare(b, c) < 0) => SortCompare(a, c) < 0
        /\ (SortCompare(a, b) > 0 /\ SortCompare(b, c) > 0) => SortCompare(a, c) > 0
        /\ (SortCompare(a, b) < 0) <=> (SortCompare(b, a) > 0)

\* x goes after the last element that does not sort after it
RECURSIVE InsertSorted(_, _)
InsertSorted(sorted, x) ==
    IF sorted = <<>> \/ SortCompare(sorted[Len(sorted)], x) <= 0
    THEN Append(sorted, x)
    ELSE Append(InsertSorted(SubSeq(sorted, 1, Len(sorted) - 1), x), sorted[Len(sorted)])

RECURSIVE StableSort(_)
StableSort(s) ==
    IF s = <<>> THEN <<>>
    ELSE InsertSorted(StableSort(SubSeq(s, 1, Len(s) - 1)), s[Len(s)])

Reorderings(s) ==
    LET n == Len(s)
    IN  { [i \in 1..n |-> s[p[i]]] :
            p \in {q \in [1..n -> 1..n] : \A i, j \in 1..n : q[i] = q[j] => i = j} }

\* similarities.sort(...): stable where the comparator is consistent, any
\* order of the same elements where it is not
SortOutcomes(s) ==
    IF ConsistentComparator(s) THEN {StableSort(s)} ELSE Reorderings(s)

\* s.slice(0, end)
Slice_dropFirst(s, end) ==
    LET k == IF end < 0 THEN Max(Len(s) + end, 0) ELSE Min(end, Len(s))
    IN  SubSeq(s, 2, k)

Slice(s, end) ==
    LET k == IF end < 0 THEN Max(Len(s) + end, 0) ELSE Min(end, Len(s))
    IN  SubSeq(s, 1, k)

Separator == <<"\n", "-", "-", "-", "\n">>

\* texts.join(sep)
RECURSIVE Join_trailing(_, _)
Join_trailing(texts, sep) ==
    IF texts = <<>> THEN <<>>
    ELSE texts[1] \o sep \o Join_trailing(Tail(texts), sep)

RECURSIVE Join(_, _)
Join(texts, sep) ==
    IF texts = <<>> THEN <<>>
    ELSE IF Len(texts) = 1 THEN texts[1]
    ELSE texts[1] \o sep \o Join(Tail(texts), sep)

\* topChunks.map(({chunk_id, text, similarity}) => ({chunk_id, text, similarity}))
Strip(top) ==
    [i \in 1..Len(top) |->
        [chunk_id |-> top[i].chunk_id, text |-> top[i].text,
         similarity |-> top[i].similarity]]

Texts(top) == [i \in 1..Len(top) |-> top[i].text]

----------------------------------------------------------------------------
(* One retrieval call *)

Entries == {"lib", "routeInline", "routeLib"}

IdleReq ==
    [pc |-> "idle", entry |-> "none", readable |-> TRUE,
     question |-> JsUndefined, topK |-> NoTopK,
     parsed |-> "none", chunks |-> <<>>, questionEmbedding |-> <<>>,
     outcome |-> "none", status |-> 0, error |-> "",
     topChunks |-> <<>>, context |-> <<>>, outQuestion |-> JsUndefined,
     embedFailure |-> "none", trace |-> <<>>, overlap |-> FALSE]

Step(q, name) == [q EXCEPT !.trace = Append(@, name)]

\* the text handed to getEmbedding: the call's own `question`
EmbeddedText_shared(r) ==
    IF reqs[2].pc # "idle" THEN reqs[2].question.val ELSE reqs[r].question.val

EmbeddedText(r) == reqs[r].question.val

\* scoring to the returned object, sync after the embedding has arrived
Retrieve(q, questionEmbedding, sorted) ==
    LET topChunks == Slice(sorted, TopKOrDefault(q.topK))
        context   == Join(Texts(topChunks), Separator)
    IN  [Step(Step(Step(q, "score"), "sort"), "assemble") EXCEPT
            !.pc = "done", !.outcome = "returned",
            !.questionEmbedding = questionEmbedding,
            !.topChunks = Strip(topChunks),
            !.context = context,
            !.outQuestion = q.question]

----------------------------------------------------------------------------
(* getRAGContext *)

\* catch (err) { throw new Error(`RAG processing failed: ${err.message}`) }
RagThrow(q, message) ==
    [q EXCEPT !.pc = "done", !.outcome = "threw",
              !.error = "RAG processing failed: " \o message]

\* from the call to the first await (fs.readFile)
RagBegin(q) ==
    IF InvalidQuestion(q.question)
    THEN RagThrow(q, "Missing or invalid question")
    ELSE [Step(q, "readFile") EXCEPT !.pc = "reading"]

\* from readFile's answer to the second await (openai.embeddings.create)
RagAfterRead_emptyOnBadFile(q, file, keySet) ==
    LET p == [Step(Step(q, "parse"), "getEmbedding") EXCEPT
                 !.parsed = IF file.status = "notArray" THEN "other" ELSE "array",
                 !.chunks = file.chunks]
    IN  IF ~keySet
        THEN RagThrow([p EXCEPT !.embedFailure = "config"],
                      "Failed to get embedding for question")
        ELSE [Step(p, "remoteCall") EXCEPT !.pc = "embedding"]

RagAfterRead(q, file, keySet) ==
    IF file.status = "missing"
    THEN RagThrow(q, "ENOENT: no such file or directory")
    ELSE IF file.status = "invalidJson"
    THEN RagThrow(q, "Unexpected token in JSON")
    ELSE LET p == [Step(Step(q, "parse"), "getEmbedding") EXCEPT
                      !.parsed = IF file.status = "notArray" THEN "other" ELSE "array",
                      !.chunks = file.chunks]
         IN  IF ~keySet
             THEN RagThrow([p EXCEPT !.embedFailure = "config"],
                           "Failed to get embedding for question")
             ELSE [Step(p, "remoteCall") EXCEPT !.pc = "embedding"]

\* from the embedding service's answer to the return
RagAfterEmbed(q, remote, questionEmbedding, sorted) ==
    IF remote # "ok"
    THEN RagThrow([q EXCEPT !.embedFailure = "service"],
                  "Failed to get embedding for question")
    ELSE IF q.parsed = "other"
    THEN RagThrow([Step(q, "embedded") EXCEPT !.questionEmbedding = questionEmbedding],
                  "chunks.map is not a function")
    ELSE Retrieve(Step(q, "embedded"), questionEmbedding, sorted)

----------------------------------------------------------------------------
(* POST /api/rag, calling getRAGContext *)

\* return NextResponse.json(result) / catch (err) -> status 500
RouteLibSettle(q) ==
    IF q.outcome = "threw"
    THEN [q EXCEPT !.outcome = "response", !.status = 500]
    ELSE IF q.outcome = "returned"
    THEN [q EXCEPT !.outcome = "response", !.status = 200]
    ELSE q

Settle(q) == IF q.entry = "routeLib" THEN RouteLibSettle(q) ELSE q

RouteLibBegin(q) ==
    IF ~q.readable
    THEN [q EXCEPT !.pc = "done", !.outcome = "response", !.status = 500,
                   !.error = "Unexpected end of JSON input"]
    ELSE RouteLibSettle(RagBegin(q))

----------------------------------------------------------------------------
(* POST /api/rag, with the pipeline inline *)

Respond(q, status, message) ==
    [q EXCEPT !.pc = "done", !.outcome = "response", !.status = status,
              !.error = message]

\* from `await req.json()` to the first await (fs.readFile)
InlineBegin(q) ==
    IF ~q.readable
    THEN Respond(q, 500, "Unexpected end of JSON input")
    ELSE IF InvalidQuestion(q.question)
    THEN Respond(q, 400, "Missing or invalid question")
    ELSE [Step(q, "readFile") EXCEPT !.pc = "reading"]

InlineAfterRead(q, file, keySet) ==
    IF file.status = "missing"
    THEN Respond(q, 500, "ENOENT: no such file or directory")
    ELSE IF file.status = "invalidJson"
    THEN Respond(q, 500, "Unexpected token in JSON")
    ELSE LET p == [Step(Step(q, "parse"), "getEmbedding") EXCEPT
                      !.parsed = IF file.status = "notArray" THEN "other" ELSE "array",
                      !.chunks = file.chunks]
         IN  IF ~keySet
             THEN Respond([p EXCEPT !.embedFailure = "config"],
                          500, "Embedding API not implemented")
             ELSE [Step(p, "remoteCall") EXCEPT !.pc = "embedding"]

InlineAfterEmbed(q, remote, questionEmbedding, sorted) ==
    IF remote # "ok"
    THEN Respond([q EXCEPT !.embedFailure = "service"],
                 500, "Embedding API not implemented")
    ELSE IF q.parsed = "other"
    THEN Respond([Step(q, "embedded") EXCEPT !.questionEmbedding = questionEmbedding],
                 500, "chunks.map is not a function")
    ELSE [Retrieve(Step(q, "embedded"), questionEmbedding, sorted) EXCEPT
             !.outcome = "response", !.status = 200]

----------------------------------------------------------------------------
(* The chat POST handler's locals *)

MessageTexts == {"", "   ", "what is due"}

\* userMessageText.trim()
Trim(t) == IF t = "   " THEN "" ELSE t

\* systemPrompt({selectedChatModel, requestHints})
SystemPrompt == <<"S", "Y", "S">>

\* the framing put around ragData.context
Framed(context) == <<"IMPORTANT: ">> \o context \o <<" When answering">>

\* a context string /api/rag can answer: the first n texts, joined
ContextOf(n) == Join([i \in 1..n |-> TextOf(i)], Separator)

\* what `fetch` gives: it throws, or answers with a status
FetchResults == {"threw", "200", "400", "500"}

\* what `await ragRes.json()` gives
RagBodies ==
    { [kind |-> k, context |-> <<>>] : k \in {"unparsable", "null", "noContext"} }
        \cup { [kind |-> "context", context |-> ContextOf(n)] : n \in 0..MaxChunks }

IdleChat ==
    [pc |-> "idle", redis |-> FALSE, text |-> "", chatExisted |-> FALSE,
     ragFailure |-> "none", ragContext |-> <<>>,
     llmCalled |-> FALSE, system |-> <<>>, response |-> "none"]

ChatRespond(c, response) == [c EXCEPT !.pc = "done", !.response = response]

\* createUIMessageStream ... streamText({system: systemPrompt(...) + ragContext}),
\* then the response, resumable (awaited) when there is a stream context
ChatStream(c) ==
    LET d == [c EXCEPT !.llmCalled = TRUE, !.system = SystemPrompt \o c.ragContext]
    IN  IF d.redis THEN [d EXCEPT !.pc = "resumable"] ELSE ChatRespond(d, "stream")

\* catch (error) { console.error('RAG API call failed:', error) }
ChatRagCaught(c, failure) == ChatStream([c EXCEPT !.ragFailure = failure])

\* the RAG section up to `await fetch(...)`
ChatRagBegin(c) ==
    IF Trim(c.text) # "" THEN [c EXCEPT !.pc = "fetching"] ELSE ChatStream(c)

\* from fetch's answer to the await of the body
ChatAfterFetch_uncaught(c, res) ==
    IF res = "threw" THEN ChatRespond([c EXCEPT !.ragFailure = "network"], "undefined")
    ELSE IF res = "200" THEN [c EXCEPT !.pc = "readingJson"]
    ELSE ChatRespond([c EXCEPT !.ragFailure = "status"], "undefined")

ChatAfterFetch(c, res) ==
    IF res = "threw" THEN ChatRagCaught(c, "network")
    ELSE IF res = "200" THEN [c EXCEPT !.pc = "readingJson"]
    ELSE [c EXCEPT !.pc = "readingText", !.ragFailure = "status"]

\* from ragRes.json()'s answer on
ChatAfterJson(c, body) ==
    IF body.kind = "unparsable" THEN ChatRagCaught(c, "unparsable")
    ELSE IF body.kind = "null" THEN ChatRagCaught(c, "nullBody")
    ELSE IF body.kind = "noContext" \/ body.context = <<>>
    THEN ChatStream([c EXCEPT !.ragFailure = "noContext"])
    ELSE ChatStream([c EXCEPT !.ragContext = Framed(body.context)])

\* from ragRes.text()'s answer on
ChatAfterText(c, readable) ==
    IF readable THEN ChatStream(c) ELSE ChatRagCaught(c, "statusBodyLost")

----------------------------------------------------------------------------
(* Actions of a retrieval call *)

InFlight(r) == reqs[r].pc \in {"reading", "embedding"}

\* history: was another call in flight when this one resumed
Resumed(q, r) == [q EXCEPT !.overlap = @ \/ \E o \in Reqs \ {r} : InFlight(o)]

\* what a caller can send: a body that req.json() cannot read carries nothing,
\* and a direct call of getRAGContext has no body to misread
Bodies(entries, questions, topKs) ==
    { b \in [entry : entries, readable : BOOLEAN, question : questions, topK : topKs] :
        b.readable \/ (b.entry # "lib" /\ b.question.type = "undefined" /\ ~b.topK.given) }

AllBodies == Bodies(Entries, Questions, TopKs)

\* a call of getRAGContext, or a POST to /api/rag, arrives
Arrive(r, bodies) ==
    /\ reqs[r].pc = "idle"
    /\ \E b \in bodies :
          reqs' = [reqs EXCEPT ![r] =
                     [@ EXCEPT !.pc = "called", !.entry = b.entry,
                               !.readable = b.readable,
                               !.question = b.question, !.topK = b.topK]]
    /\ UNCHANGED <<corpusFile, apiKeySet, chat>>

GetRAGContextCall(r) ==
    /\ reqs[r].pc = "called" /\ reqs[r].entry = "lib"
    /\ reqs' = [reqs EXCEPT ![r] = RagBegin(@)]
    /\ UNCHANGED <<corpusFile, apiKeySet, chat>>

PostLib(r) ==
    /\ reqs[r].pc = "called" /\ reqs[r].entry = "routeLib"
    /\ reqs' = [reqs EXCEPT ![r] = RouteLibBegin(@)]
    /\ UNCHANGED <<corpusFile, apiKeySet, chat>>

PostInline(r) ==
    /\ reqs[r].pc = "called" /\ reqs[r].entry = "routeInline"
    /\ reqs' = [reqs EXCEPT ![r] = InlineBegin(@)]
    /\ UNCHANGED <<corpusFile, apiKeySet, chat>>

RagReadDone(r) ==
    /\ reqs[r].pc = "reading" /\ reqs[r].entry \in {"lib", "routeLib"}
    /\ reqs' = [reqs EXCEPT ![r] = Settle(RagAfterRead(@, corpusFile, apiKeySet[r]))]
    /\ UNCHANGED <<corpusFile, apiKeySet, chat>>

InlineReadDone(r) ==
    /\ reqs[r].pc = "reading" /\ reqs[r].entry = "routeInline"
    /\ reqs' = [reqs EXCEPT ![r] = InlineAfterRead(@, corpusFile, apiKeySet[r])]
    /\ UNCHANGED <<corpusFile, apiKeySet, chat>>

RagEmbedDone(r) ==
    /\ reqs[r].pc = "embedding" /\ reqs[r].entry \in {"lib", "routeLib"}
    /\ \E remote \in RemoteOutcomes :
          LET qe == EmbeddingOf(EmbeddedText(r))
          IN  \E sorted \in SortOutcomes(Similarities(reqs[r].chunks, qe)) :
                 reqs' = [reqs EXCEPT ![r] =
                            Settle(RagAfterEmbed(Resumed(@, r), remote, qe, sorted))]
    /\ UNCHANGED <<corpusFile, apiKeySet, chat>>

InlineEmbedDone(r) ==
    /\ reqs[r].pc = "embedding" /\ reqs[r].entry = "routeInline"
    /\ \E remote \in RemoteOutcomes :
          LET qe == EmbeddingOf(EmbeddedText(r))
          IN  \E sorted \in SortOutcomes(Similarities(reqs[r].chunks, qe)) :
                 reqs' = [reqs EXCEPT ![r] =
                            InlineAfterEmbed(Resumed(@, r), remote, qe, sorted)]
    /\ UNCHANGED <<corpusFile, apiKeySet, chat>>

----------------------------------------------------------------------------
(* One retrieval call at a time, through any of the three entries *)

Init ==
    /\ corpusFile \in Files(Vecs, MaxChunks)
    /\ apiKeySet \in {f \in [Reqs -> BOOLEAN] : f[2]}
    /\ reqs = [r \in Reqs |-> IdleReq]
    /\ chat = IdleChat

Next ==
    \/ Arrive(1, AllBodies)
    \/ GetRAGContextCall(1)
    \/ PostLib(1)
    \/ PostInline(1)
    \/ RagReadDone(1)
    \/ InlineReadDone(1)
    \/ RagEmbedDone(1)
    \/ InlineEmbedDone(1)

Spec == Init /\ [][Next]_vars

----------------------------------------------------------------------------
(* Two concurrent calls of getRAGContext over one corpus *)

ConcQuestions == {JsString("what is due"), JsString("who teaches"), JsString("")}

ConcTopKs == {NoTopK, GivenTopK(1)}

ConcBodies == Bodies({"lib"}, ConcQuestions, ConcTopKs)

InitConc ==
    /\ corpusFile \in Files(ConcVecs, MaxConcChunks)
    /\ apiKeySet \in [Reqs -> BOOLEAN]
    /\ reqs = [r \in Reqs |-> IdleReq]
    /\ chat = IdleChat

NextConc ==
    \E r \in Reqs :
        \/ Arrive(r, ConcBodies)
        \/ GetRAGContextCall(r)
        \/ RagReadDone(r)
        \/ RagEmbedDone(r)

SpecConc == InitConc /\ [][NextConc]_vars

----------------------------------------------------------------------------
(* The chat POST handler *)

\* request.json() and postRequestBodySchema.parse
ChatParse ==
    /\ chat.pc = "idle"
    /\ \/ chat' = ChatRespond(chat, "bad_request:api")
       \/ \E t \in MessageTexts : chat' = [chat EXCEPT !.pc = "auth", !.text = t]
    /\ UNCHANGED <<corpusFile, apiKeySet, reqs>>

\* auth(), the day's message count, getChatById and what follows it
ChatAuthorize ==
    /\ chat.pc = "auth"
    /\ \/ \E e \in {"unauthorized:chat", "rate_limit:chat", "forbidden:chat",
                       "bad_request:database"} :
             chat' = ChatRespond(chat, e)
       \/ \E existed \in BOOLEAN :
             chat' = [chat EXCEPT !.pc = "saving", !.chatExisted = existed]
    /\ UNCHANGED <<corpusFile, apiKeySet, reqs>>

\* getMessagesByChatId, saveMessages, createStreamId, then the RAG section
ChatSave ==
    /\ chat.pc = "saving"
    /\ \/ chat' = ChatRespond(chat, "bad_request:database")
       \/ chat' = ChatRagBegin(chat)
    /\ UNCHANGED <<corpusFile, apiKeySet, reqs>>

ChatFetchDone ==
    /\ chat.pc = "fetching"
    /\ \E res \in FetchResults : chat' = ChatAfterFetch(chat, res)
    /\ UNCHANGED <<corpusFile, apiKeySet, reqs>>

ChatJsonDone ==
    /\ chat.pc = "readingJson"
    /\ \E body \in RagBodies : chat' = ChatAfterJson(chat, body)
    /\ UNCHANGED <<corpusFile, apiKeySet, reqs>>

ChatTextDone ==
    /\ chat.pc = "readingText"
    /\ \E readable \in BOOLEAN : chat' = ChatAfterText(chat, readable)
    /\ UNCHANGED <<corpusFile, apiKeySet, reqs>>

\* await streamContext.resumableStream(...)
ChatResumableDone ==
    /\ chat.pc = "resumable"
    /\ \E r \in {"stream", "undefined"} : chat' = ChatRespond(chat, r)
    /\ UNCHANGED <<corpusFile, apiKeySet, reqs>>

InitChat ==
    /\ corpusFile = [status |-> "ok", chunks |-> <<>>]
    /\ apiKeySet = [r \in Reqs |-> TRUE]
    /\ reqs = [r \in Reqs |-> IdleReq]
    /\ \E redis \in BOOLEAN : chat = [IdleChat EXCEPT !.redis = redis]

NextChat ==
    \/ ChatParse
    \/ ChatAuthorize
    \/ ChatSave
    \/ ChatFetchDone
    \/ ChatJsonDone
    \/ ChatTextDone
    \/ ChatResumableDone

SpecChat == InitChat /\ [][NextChat]_vars

----------------------------------------------------------------------------
(* Properties *)

Done(r) == reqs[r].pc = "done"

Succeeded(r) ==
    /\ Done(r)
    /\ \/ reqs[r].outcome = "returned"
       \/ reqs[r].outcome = "response" /\ reqs[r].status = 200

Failed(r) == Done(r) /\ ~Succeeded(r)

CorpusSize == Len(corpusFile.chunks)

\* a question the input contract rejects: empty, missing, or not a string
Rejected(q) == ~(q.type = "string" /\ q.val # "")

HasNaN(top) == \E i \in 1..Len(top) : top[i].similarity.nan

\* C1: a successful retrieval with a positive integer topK = K over a corpus
\* of N chunks returns exactly min(K, N) topChunks
TopChunksLength ==
    \A r \in Reqs :
        (Succeeded(r) /\ TopKOrDefault(reqs[r].topK) > 0) =>
            Len(reqs[r].topChunks) =
                (IF TopKOrDefault(reqs[r].topK) <= CorpusSize
                 THEN TopKOrDefault(reqs[r].topK) ELSE CorpusSize)

TopChunksLengthWitness ==
    \E r \in Reqs :
        /\ Succeeded(r) /\ CorpusSize = 3
        /\ reqs[r].topK = GivenTopK(2) /\ Len(reqs[r].topChunks) = 2

\* C2: in a successful result topChunks is ordered by similarity, non-increasing
\* (no chunk is preceded by one that is not at least as similar), and chunks of
\* equal similarity keep the order they have in the corpus
SortedAndStable ==
    \A r \in Reqs :
        Succeeded(r) =>
            \A i, j \in 1..Len(reqs[r].topChunks) :
                i < j =>
                    LET a == reqs[r].topChunks[i]
                        b == reqs[r].topChunks[j]
                    IN  /\ ~b.similarity.nan => Geq(a.similarity, b.similarity)
                        /\ a.similarity = b.similarity => a.chunk_id < b.chunk_id

\* the same, for results in which every similarity is a number
SortedAndStableOfNumbers ==
    \A r \in Reqs :
        (Succeeded(r)
            /\ ~HasNaN(Similarities(corpusFile.chunks, reqs[r].questionEmbedding))) =>
            \A i, j \in 1..Len(reqs[r].topChunks) :
                i < j =>
                    LET a == reqs[r].topChunks[i]
                        b == reqs[r].topChunks[j]
                    IN  /\ Geq(a.similarity, b.similarity)
                        /\ a.similarity = b.similarity => a.chunk_id < b.chunk_id

\* C3: in a successful result with positive topK, every chunk in topChunks is
\* at least as similar to the query as every scored chunk left out of it
TopChunksAreHighest ==
    \A r \in Reqs :
        (Succeeded(r) /\ TopKOrDefault(reqs[r].topK) > 0) =>
            LET scored == Similarities(corpusFile.chunks, EmbeddingOf(reqs[r].question.val))
                taken  == {reqs[r].topChunks[i].chunk_id : i \in 1..Len(reqs[r].topChunks)}
            IN  \A c \in 1..CorpusSize :
                    (scored[c].chunk_id \notin taken /\ ~scored[c].similarity.nan) =>
                        \A i \in 1..Len(reqs[r].topChunks) :
                            Geq(reqs[r].topChunks[i].similarity, scored[c].similarity)

\* the same, for corpora in which every similarity is a number
TopChunksAreHighestOfNumbers ==
    \A r \in Reqs :
        (Succeeded(r) /\ TopKOrDefault(reqs[r].topK) > 0
            /\ ~HasNaN(Similarities(corpusFile.chunks, reqs[r].questionEmbedding))) =>
            LET scored == Similarities(corpusFile.chunks, EmbeddingOf(reqs[r].question.val))
                taken  == {reqs[r].topChunks[i].chunk_id : i \in 1..Len(reqs[r].topChunks)}
            IN  \A c \in 1..CorpusSize :
                    scored[c].chunk_id \notin taken =>
                        \A i \in 1..Len(reqs[r].topChunks) :
                            Geq(reqs[r].topChunks[i].similarity, scored[c].similarity)

\* the start, in context, of the i-th text
RECURSIVE OffsetOf(_, _)
OffsetOf(top, i) ==
    IF i = 1 THEN 0
    ELSE OffsetOf(top, i - 1) + Len(top[i - 1].text) + Len(Separator)

\* C4: context is the texts of topChunks in ranked order with "\n---\n" between
\* them and nowhere else, and question is the input question
ContextIsJoinedTexts ==
    \A r \in Reqs :
        Succeeded(r) =>
            LET top == reqs[r].topChunks
                n   == Len(top)
                ctx == reqs[r].context
            IN  /\ Len(ctx) = (IF n = 0 THEN 0 ELSE OffsetOf(top, n) + Len(top[n].text))
                /\ \A i \in 1..n :
                      SubSeq(ctx, OffsetOf(top, i) + 1, OffsetOf(top, i) + Len(top[i].text))
                          = top[i].text
                /\ \A i \in 1..(n - 1) :
                      SubSeq(ctx, OffsetOf(top, i) + Len(top[i].text) + 1, OffsetOf(top, i + 1))
                          = Separator
                /\ reqs[r].outQuestion = reqs[r].question

ContextIsJoinedTextsWitness ==
    \E r \in Reqs :
        /\ Succeeded(r) /\ Len(reqs[r].topChunks) = 3
        /\ Len(reqs[r].context) > 2 * Len(Separator)

\* C5: a call whose question is empty, missing or not a string never reads the
\* corpus and never calls the embedder, and ends with the invalid-input error
InvalidQuestionFailsFirst ==
    \A r \in Reqs :
        (reqs[r].pc # "idle" /\ reqs[r].readable /\ Rejected(reqs[r].question)) =>
            /\ reqs[r].trace = <<>>
            /\ reqs[r].pc \in {"called", "done"}
            /\ Done(r) =>
                  /\ Failed(r)
                  /\ reqs[r].error \in {"Missing or invalid question",
                                        "RAG processing failed: Missing or invalid question"}

InvalidQuestionFailsFirstWitness ==
    \E r \in Reqs :
        /\ Failed(r) /\ reqs[r].question = JsString("")
        /\ reqs[r].trace = <<>>
        /\ reqs[r].error = "RAG processing failed: Missing or invalid question"

CorpusFailed(r) ==
    /\ Failed(r)
    /\ \/ corpusFile.status \in {"missing", "invalidJson"} /\ "readFile" \in Range(reqs[r].trace)
       \/ corpusFile.status = "notArray" /\ "embedded" \in Range(reqs[r].trace)

\* C6: POST /api/rag answers a missing or non-string question with a 4xx status
\* and an embedding or corpus failure with a 5xx status
StatusClasses ==
    \A r \in Reqs :
        (Done(r) /\ reqs[r].entry \in {"routeInline", "routeLib"} /\ reqs[r].readable) =>
            /\ Rejected(reqs[r].question) => reqs[r].status \in 400..499
            /\ (reqs[r].embedFailure # "none" \/ CorpusFailed(r)) =>
                  reqs[r].status \in 500..599

\* the 5xx half alone
FailureStatusIs5xx ==
    \A r \in Reqs :
        (Done(r) /\ reqs[r].entry \in {"routeInline", "routeLib"}
            /\ (reqs[r].embedFailure # "none" \/ CorpusFailed(r))) =>
            reqs[r].status \in 500..599

\* C9: without a credential the embedder fails before any remote call, and a
\* missing credential and a failed remote call are reported as different errors
EmbedFailuresDistinct ==
    /\ \A r \in Reqs :
          reqs[r].embedFailure = "config" => "remoteCall" \notin Range(reqs[r].trace)
    /\ \A r1, r2 \in Reqs :
          (Done(r1) /\ Done(r2) /\ reqs[r1].embedFailure = "config"
              /\ reqs[r2].embedFailure = "service") =>
              reqs[r1].error # reqs[r2].error

PipelineOrder ==
    <<"readFile", "parse", "getEmbedding", "remoteCall", "embedded",
      "score", "sort", "assemble">>

\* C10: the steps of a call come in the order load, embed, score, assemble; a
\* corpus that is missing or is not JSON ends the call before any embedding call
StepsInOrder ==
    \A r \in Reqs :
        /\ Len(reqs[r].trace) <= Len(PipelineOrder)
        /\ reqs[r].trace = SubSeq(PipelineOrder, 1, Len(reqs[r].trace))
        /\ corpusFile.status \in {"missing", "invalidJson"} =>
              /\ "getEmbedding" \notin Range(reqs[r].trace)
              /\ "remoteCall" \notin Range(reqs[r].trace)
              /\ reqs[r].pc # "embedding"

StepsInOrderWitness ==
    \E r \in Reqs :
        /\ Failed(r) /\ corpusFile.status = "invalidJson"
        /\ reqs[r].trace = <<"readFile">>

\* what a call with this question and topK can return when it runs alone
AloneResults(question, topK) ==
    LET qe == EmbeddingOf(question.val)
    IN  { [topChunks |-> Strip(Slice(sorted, TopKOrDefault(topK))),
           context   |-> Join(Texts(Slice(sorted, TopKOrDefault(topK))), Separator),
           question  |-> question] :
            sorted \in SortOutcomes(Similarities(corpusFile.chunks, qe)) }

\* C8: whatever the interleaving with another call, a call returns what it
\* returns when it runs alone
CallsAreIndependent ==
    \A r \in Reqs :
        Succeeded(r) =>
            [topChunks |-> reqs[r].topChunks, context |-> reqs[r].context,
             question |-> reqs[r].outQuestion]
                \in AloneResults(reqs[r].question, reqs[r].topK)

CallsAreIndependentWitness ==
    /\ Succeeded(1) /\ Succeeded(2)
    /\ reqs[1].overlap
    /\ reqs[1].question # reqs[2].question
    /\ reqs[1].topChunks # <<>> /\ reqs[2].topChunks # <<>>
    /\ reqs[1].topChunks[1].chunk_id # reqs[2].topChunks[1].chunk_id

RagFailures == {"network", "status", "statusBodyLost", "unparsable", "nullBody", "noContext"}

\* C7: however the retrieval fails, the chat turn goes on to the LLM call with
\* an empty ragContext, and no error response is sent for it
ChatSurvivesRagFailure ==
    chat.ragFailure \in RagFailures =>
        /\ chat.ragContext = <<>>
        /\ chat.pc \in {"readingText", "resumable", "done"}
        /\ chat.pc # "readingText" => (chat.llmCalled /\ chat.system = SystemPrompt)
        /\ (chat.pc = "done" /\ ~chat.redis) => chat.response = "stream"

ChatSurvivesRagFailureWitness ==
    /\ chat.ragFailure = "network" /\ chat.pc = "done"
    /\ chat.llmCalled /\ chat.response = "stream"

====
